---- MODULE Spec2Model ----
(***************************************************************************)
(* FarmConnect: the row-level authorization policies and the schema        *)
(* constraints of the Supabase migrations, as a state machine over the     *)
(* row store.  A table is the set of its rows; every request (insert,      *)
(* update, select) is issued by an authenticated actor (auth.uid()), and   *)
(* the variable "last" holds the request just served and its outcome.      *)
(*                                                                         *)
(* A policy is modelled as the predicate it declares over (auth.uid(), the *)
(* row, the store).  A sub-select inside a policy reads the store as the   *)
(* acting user; the rows those sub-selects need are always visible to that *)
(* user ("Users can read own profile", "Buyers can read own orders", ...). *)
(* The database engine's rewrite-time handling of a policy on              *)
(* user_profiles that selects from user_profiles is not part of the model. *)
(***************************************************************************)
EXTENDS Integers, FiniteSets, Sequences, TLC

VARIABLES user_profiles, products, orders, order_items, reviews, messages,
          educational_resources, resource_bookmarks,
          resources, expandedResource, inflight, last

vars == <<user_profiles, products, orders, order_items, reviews, messages,
          educational_resources, resource_bookmarks, resources, expandedResource,
          inflight, last>>

\* inflight: the INSERT statements on reviews that have taken their snapshot
\* and evaluated their policy, and have not committed yet

\* the tables of the second migration's resources part, and the state of each
\* user's Resources page (useState: resources, expandedResource)
resourceVars == <<educational_resources, resource_bookmarks, resources, expandedResource>>

(***************************************************************************)
(* Value domains                                                           *)
(***************************************************************************)
\* SQL NULL in a nullable uuid column
NULL == 0

\* auth.users: the authenticated identities
Users == {"u1", "u2", "u3"}

Roles == {"admin", "farmer", "buyer"}

Names == {"n1", "n2"}

OrderStatuses == {"pending", "confirmed", "shipped", "delivered", "cancelled"}

PaymentStatuses == {"pending", "completed", "failed", "refunded"}

\* the request served last: op, the acting user, the target row id (or NULL),
\* the column an update sets, the outcome, and the rows a select returned
NoRequest == [op |-> "none", actor |-> "none", target |-> NULL, col |-> "none",
              outcome |-> "none", rows |-> {}]

Response(op, actor, target, col, outcome) ==
    [op |-> op, actor |-> actor, target |-> target, col |-> col,
     outcome |-> outcome, rows |-> {}]

ReadResponse(op, actor, rows) ==
    [op |-> op, actor |-> actor, target |-> NULL, col |-> "none",
     outcome |-> "ALLOW", rows |-> rows]

\* UPDATE t SET col = val on one row
SetCol(row, col, val) == [row EXCEPT ![col] = val]

(***************************************************************************)
(* user_profiles                                                           *)
(***************************************************************************)
\* EXISTS (SELECT 1 FROM user_profiles WHERE id = auth.uid() AND role IN roles)
HasRole(uid, roles) == \E p \in user_profiles : p.id = uid /\ p.role \in roles

\* CHECK (role IN ('admin', 'farmer', 'buyer'))
ProfileCheck(row) == row.role \in Roles

UsersCanReadOwnProfile(uid, row) == uid = row.id

AdminsCanReadAllProfiles(uid, row) == HasRole(uid, {"admin"})

\* permissive SELECT policies are OR-ed
ProfileSelectPolicy(uid, row) ==
    UsersCanReadOwnProfile(uid, row) \/ AdminsCanReadAllProfiles(uid, row)

UsersCanInsertOwnProfile(uid, row) == uid = row.id

UsersCanUpdateOwnProfileUsing(uid, row) == uid = row.id

\* a mutant of the WITH CHECK: the role comparison is left out
UsersCanUpdateOwnProfileCheckNoRole(uid, new) == uid = new.id

\* WITH CHECK (auth.uid() = id AND role = (SELECT role FROM user_profiles
\* WHERE id = auth.uid())): the sub-select reads the store as it was before
\* the statement, i.e. the unprimed user_profiles
UsersCanUpdateOwnProfileCheck(uid, new) ==
    /\ uid = new.id
    /\ \E p \in user_profiles : p.id = uid /\ new.role = p.role

\* a mutant of the read: only the own-row policy is applied
ProfilesVisibleToOwnOnly(uid) ==
    {r \in user_profiles : UsersCanReadOwnProfile(uid, r)}

\* SELECT * FROM user_profiles as uid: the rows the policies let through
ProfilesVisibleTo(uid) == {r \in user_profiles : ProfileSelectPolicy(uid, r)}

SelectUserProfiles(actor) ==
    /\ last' = ReadResponse("select_user_profiles", actor, ProfilesVisibleTo(actor))
    /\ UNCHANGED <<user_profiles, products, orders, order_items, reviews, messages, resourceVars,
                   inflight>>

InsertUserProfile(actor, row) ==
    LET outcome ==
          IF ~UsersCanInsertOwnProfile(actor, row) THEN "DENY"
          ELSE IF ~ProfileCheck(row) THEN "IntegrityViolation"
          ELSE IF \E p \in user_profiles : p.id = row.id THEN "IntegrityViolation"
          ELSE "ALLOW"
    IN /\ user_profiles' = IF outcome = "ALLOW" THEN user_profiles \cup {row}
                           ELSE user_profiles
       /\ last' = Response("insert_user_profiles", actor, NULL, "none", outcome)
       /\ UNCHANGED <<products, orders, order_items, reviews, messages, resourceVars,
                   inflight>>

\* UPDATE user_profiles SET col = val WHERE id = target, as actor
UpdateUserProfile(actor, target, col, val) ==
    LET hit == {r \in user_profiles :
                  /\ r.id = target
                  /\ ProfileSelectPolicy(actor, r)
                  /\ UsersCanUpdateOwnProfileUsing(actor, r)}
        new(r) == SetCol(r, col, val)
        outcome ==
          IF hit = {} THEN "DENY"
          ELSE IF \E r \in hit : ~UsersCanUpdateOwnProfileCheck(actor, new(r)) THEN "DENY"
          ELSE IF \E r \in hit : ~ProfileCheck(new(r)) THEN "IntegrityViolation"
          ELSE IF \E r \in hit : \E p \in user_profiles \ hit : p.id = new(r).id
               THEN "IntegrityViolation"
          ELSE "ALLOW"
    IN /\ user_profiles' = IF outcome = "ALLOW"
                           THEN (user_profiles \ hit) \cup {new(r) : r \in hit}
                           ELSE user_profiles
       /\ last' = Response("update_user_profiles", actor, target, col, outcome)
       /\ UNCHANGED <<products, orders, order_items, reviews, messages, resourceVars,
                   inflight>>

\* the values a request may put in a column of user_profiles
ProfileColValues(col) ==
    CASE col = "id" -> Users
      [] col = "role" -> Roles
      [] col = "full_name" -> Names

ProfileRows == [id : Users, role : Roles, full_name : Names]

InitProfiles ==
    /\ user_profiles = {}
    /\ products = {}
    /\ orders = {}
    /\ order_items = {}
    /\ reviews = {}
    /\ messages = {}
    /\ educational_resources = {}
    /\ resource_bookmarks = {}
    /\ resources = [u \in Users |-> {}]
    /\ expandedResource = [u \in Users |-> NULL]
    /\ inflight = {}
    /\ last = NoRequest

NextProfiles ==
    \/ \E actor \in Users, row \in ProfileRows : InsertUserProfile(actor, row)
    \/ \E actor \in Users, target \in Users, col \in {"id", "role", "full_name"} :
         \E val \in ProfileColValues(col) : UpdateUserProfile(actor, target, col, val)
    \/ \E actor \in Users : SelectUserProfiles(actor)

SpecProfiles == InitProfiles /\ [][NextProfiles]_vars

(***************************************************************************)
(* Claims about user_profiles                                              *)
(***************************************************************************)
\* C1: an update of a user_profiles row that proposes a role other than the
\* row's current role is denied for every actor, the row's owner included,
\* and leaves the table as it was; so no step ever changes the role of an
\* existing account.
C1_RoleFrozen ==
    [][/\ \A val \in Roles :
            ( /\ last'.op = "update_user_profiles"
              /\ last'.col = "role"
              /\ \E r \in user_profiles : r.id = last'.target /\ r.role # val
              /\ UpdateUserProfile(last'.actor, last'.target, "role", val) )
            => (last'.outcome = "DENY" /\ user_profiles' = user_profiles)
       /\ \A p \in user_profiles : \A q \in user_profiles' :
            q.id = p.id => q.role = p.role]_vars

\* the owner of an existing row asked for another role and was denied
C1_Witness ==
    /\ last.op = "update_user_profiles"
    /\ last.col = "role"
    /\ last.actor = last.target
    /\ last.outcome = "DENY"
    /\ \E p \in user_profiles : p.id = last.actor

\* C6: a read of user_profiles succeeds and returns exactly the rows the rule
\* "actor == row owner OR actor.role == admin" allows: every row to an admin,
\* only the own row to anyone else.
C6_AccountRead ==
    last.op = "select_user_profiles" =>
      /\ last.outcome = "ALLOW"
      /\ (\E a \in user_profiles : a.id = last.actor /\ a.role = "admin")
           => last.rows = user_profiles
      /\ ~(\E a \in user_profiles : a.id = last.actor /\ a.role = "admin")
           => last.rows = {r \in user_profiles : r.id = last.actor}

\* a buyer read the table while an admin's and a farmer's rows were in it,
\* and received its own row only
C6_Witness ==
    /\ last.op = "select_user_profiles"
    /\ \E b \in user_profiles :
         b.id = last.actor /\ b.role = "buyer" /\ last.rows = {b}
    /\ \E a \in user_profiles : a.role = "admin"
    /\ Cardinality(user_profiles) = 3

(***************************************************************************)
(* messages                                                                *)
(***************************************************************************)
\* the most message rows the model stores
MaxMessages == 1

MessageIds == 1..MaxMessages

Contents == {"c1", "c2"}

\* the accounts the other tables refer to: an admin, a farmer and a buyer
SeedProfiles ==
    {[id |-> "u1", role |-> "admin", full_name |-> "n1"],
     [id |-> "u2", role |-> "farmer", full_name |-> "n1"],
     [id |-> "u3", role |-> "buyer", full_name |-> "n1"]}

\* id uuid PRIMARY KEY DEFAULT gen_random_uuid(): an identifier not in use
FreshId(ids, table) ==
    LET free == {i \in ids : \A r \in table : r.id # i}
    IN IF free = {} THEN NULL ELSE CHOOSE i \in free : \A j \in free : i <= j

\* REFERENCES t(id) on a nullable column
RefOrNull(ref, table) == ref = NULL \/ \E r \in table : r.id = ref

\* the foreign keys of a messages row
MessageForeignKeys(row) ==
    /\ \E p \in user_profiles : p.id = row.sender_id
    /\ \E p \in user_profiles : p.id = row.receiver_id
    /\ RefOrNull(row.product_id, products)
    /\ RefOrNull(row.order_id, orders)

UsersCanReadTheirMessages(uid, row) == row.sender_id = uid \/ row.receiver_id = uid

UsersCanSendMessages(uid, row) == row.sender_id = uid

\* a mutant of the USING clause: either party of the message passes
UsersCanMarkReceivedMessagesAsReadUsingParty(uid, row) ==
    row.sender_id = uid \/ row.receiver_id = uid

UsersCanMarkReceivedMessagesAsReadUsing(uid, row) == row.receiver_id = uid

UsersCanMarkReceivedMessagesAsReadCheck(uid, new) == new.receiver_id = uid

\* INSERT INTO messages (...) VALUES (...), as actor; id and is_read default
InsertMessage(actor, payload) ==
    LET id == FreshId(MessageIds, messages)
        row == [id |-> id, sender_id |-> payload.sender_id,
                receiver_id |-> payload.receiver_id,
                product_id |-> payload.product_id, order_id |-> payload.order_id,
                content |-> payload.content, is_read |-> FALSE]
        outcome ==
          IF ~UsersCanSendMessages(actor, row) THEN "DENY"
          ELSE IF ~MessageForeignKeys(row) THEN "IntegrityViolation"
          ELSE "ALLOW"
    IN /\ id # NULL
       /\ messages' = IF outcome = "ALLOW" THEN messages \cup {row} ELSE messages
       /\ last' = Response("insert_messages", actor, NULL, "none", outcome)
       /\ UNCHANGED <<user_profiles, products, orders, order_items, reviews, resourceVars,
                   inflight>>

\* UPDATE messages SET col = val WHERE id = target, as actor
UpdateMessage(actor, target, col, val) ==
    LET hit == {r \in messages :
                  /\ r.id = target
                  /\ UsersCanReadTheirMessages(actor, r)
                  /\ UsersCanMarkReceivedMessagesAsReadUsing(actor, r)}
        new(r) == SetCol(r, col, val)
        outcome ==
          IF hit = {} THEN "DENY"
          ELSE IF \E r \in hit : ~UsersCanMarkReceivedMessagesAsReadCheck(actor, new(r))
               THEN "DENY"
          ELSE IF \E r \in hit : ~MessageForeignKeys(new(r)) THEN "IntegrityViolation"
          ELSE "ALLOW"
    IN /\ messages' = IF outcome = "ALLOW"
                      THEN (messages \ hit) \cup {new(r) : r \in hit}
                      ELSE messages
       /\ last' = Response("update_messages", actor, target, col, outcome)
       /\ UNCHANGED <<user_profiles, products, orders, order_items, reviews, resourceVars,
                   inflight>>

\* the values a request may put in a column of messages
MessageColValues(col) ==
    CASE col = "sender_id" -> Users
      [] col = "receiver_id" -> Users
      [] col = "content" -> Contents
      [] col = "is_read" -> BOOLEAN
      [] col = "product_id" -> {NULL, 1}
      [] col = "order_id" -> {NULL, 1}

MessageCols == {"sender_id", "receiver_id", "content", "is_read", "product_id", "order_id"}

MessagePayloads ==
    [sender_id : Users, receiver_id : Users, content : Contents,
     product_id : {NULL, 1}, order_id : {NULL}]

InitMessages ==
    /\ user_profiles = SeedProfiles
    /\ products = {}
    /\ orders = {}
    /\ order_items = {}
    /\ reviews = {}
    /\ messages = {}
    /\ educational_resources = {}
    /\ resource_bookmarks = {}
    /\ resources = [u \in Users |-> {}]
    /\ expandedResource = [u \in Users |-> NULL]
    /\ inflight = {}
    /\ last = NoRequest

NextMessages ==
    \/ \E actor \in Users, payload \in MessagePayloads : InsertMessage(actor, payload)
    \/ \E actor \in Users, target \in MessageIds, col \in MessageCols :
         \E val \in MessageColValues(col) : UpdateMessage(actor, target, col, val)

SpecMessages == InitMessages /\ [][NextMessages]_vars

(***************************************************************************)
(* Claims about messages                                                   *)
(***************************************************************************)
\* C7: a message is updated only by the actor that is its receiver_id: an
\* update by anyone else (the sender, a third party) is denied and leaves
\* the row unchanged, and every row that a step changes was changed by an
\* update of its receiver.
C7_OnlyReceiverUpdates ==
    [][/\ ( /\ last'.op = "update_messages"
            /\ \E m \in messages : m.id = last'.target /\ m.receiver_id # last'.actor )
          => (last'.outcome = "DENY" /\ messages' = messages)
       /\ \A m \in messages : m \notin messages' =>
            (last'.op = "update_messages" /\ last'.actor = m.receiver_id)]_vars

\* the receiver had marked the message read, then its sender (another
\* account) tried to update the same row and was denied
C7_Witness ==
    /\ last.op = "update_messages"
    /\ last.outcome = "DENY"
    /\ \E m \in messages :
         /\ m.id = last.target
         /\ m.sender_id = last.actor
         /\ m.receiver_id # last.actor
         /\ m.is_read

\* C8: an accepted update of a message changes only is_read: sender_id,
\* receiver_id, content, product_id and order_id of a message never change.
C8_OnlyReadFlagChanges ==
    [][\A m \in messages : \A n \in messages' :
         n.id = m.id =>
           /\ n.sender_id = m.sender_id
           /\ n.receiver_id = m.receiver_id
           /\ n.content = m.content
           /\ n.product_id = m.product_id
           /\ n.order_id = m.order_id]_vars

(***************************************************************************)
(* orders                                                                  *)
(***************************************************************************)
\* the most orders rows the model stores
MaxOrders == 1

OrderIds == 1..MaxOrders

Addresses == {"a1", "a2"}

\* the foreign keys of an orders row
OrderForeignKeys(row) ==
    /\ \E p \in user_profiles : p.id = row.buyer_id
    /\ \E p \in user_profiles : p.id = row.farmer_id

\* CHECK (total_amount >= 0), CHECK (status IN ...), CHECK (payment_status IN ...)
OrderCheck(row) ==
    /\ row.total_amount >= 0
    /\ row.status \in OrderStatuses
    /\ row.payment_status \in PaymentStatuses

BuyersCanReadOwnOrders(uid, row) == row.buyer_id = uid

FarmersCanReadTheirOrders(uid, row) == row.farmer_id = uid

AdminsCanReadAllOrders(uid, row) == HasRole(uid, {"admin"})

OrderSelectPolicy(uid, row) ==
    \/ BuyersCanReadOwnOrders(uid, row)
    \/ FarmersCanReadTheirOrders(uid, row)
    \/ AdminsCanReadAllOrders(uid, row)

BuyersCanCreateOrders(uid, row) == row.buyer_id = uid /\ HasRole(uid, {"buyer"})

FarmersCanUpdateTheirOrdersUsing(uid, row) == row.farmer_id = uid

FarmersCanUpdateTheirOrdersCheck(uid, new) == new.farmer_id = uid

\* INSERT INTO orders (...) VALUES (...), as actor; id defaults
InsertOrder(actor, payload) ==
    LET id == FreshId(OrderIds, orders)
        row == [id |-> id, buyer_id |-> payload.buyer_id,
                farmer_id |-> payload.farmer_id,
                total_amount |-> payload.total_amount, status |-> payload.status,
                payment_status |-> payload.payment_status,
                delivery_address |-> payload.delivery_address]
        outcome ==
          IF ~BuyersCanCreateOrders(actor, row) THEN "DENY"
          ELSE IF ~OrderCheck(row) THEN "IntegrityViolation"
          ELSE IF ~OrderForeignKeys(row) THEN "IntegrityViolation"
          ELSE "ALLOW"
    IN /\ id # NULL
       /\ orders' = IF outcome = "ALLOW" THEN orders \cup {row} ELSE orders
       /\ last' = Response("insert_orders", actor, NULL, "none", outcome)
       /\ UNCHANGED <<user_profiles, products, order_items, reviews, messages, resourceVars,
                   inflight>>

\* a mutant of the update: the SET is applied before the CHECK constraints
\* reject the statement, and is not undone
UpdateOrderWriteFirst(actor, target, col, val) ==
    LET hit == {r \in orders :
                  /\ r.id = target
                  /\ OrderSelectPolicy(actor, r)
                  /\ FarmersCanUpdateTheirOrdersUsing(actor, r)}
        new(r) == SetCol(r, col, val)
        outcome ==
          IF hit = {} THEN "DENY"
          ELSE IF \E r \in hit : ~FarmersCanUpdateTheirOrdersCheck(actor, new(r))
               THEN "DENY"
          ELSE IF \E r \in hit : ~OrderCheck(new(r)) THEN "IntegrityViolation"
          ELSE IF \E r \in hit : ~OrderForeignKeys(new(r)) THEN "IntegrityViolation"
          ELSE "ALLOW"
    IN /\ orders' = IF outcome # "DENY"
                    THEN (orders \ hit) \cup {new(r) : r \in hit}
                    ELSE orders
       /\ last' = Response("update_orders", actor, target, col, outcome)
       /\ UNCHANGED <<user_profiles, products, order_items, reviews, messages, resourceVars,
                   inflight>>

\* UPDATE orders SET col = val WHERE id = target, as actor
UpdateOrder(actor, target, col, val) ==
    LET hit == {r \in orders :
                  /\ r.id = target
                  /\ OrderSelectPolicy(actor, r)
                  /\ FarmersCanUpdateTheirOrdersUsing(actor, r)}
        new(r) == SetCol(r, col, val)
        outcome ==
          IF hit = {} THEN "DENY"
          ELSE IF \E r \in hit : ~FarmersCanUpdateTheirOrdersCheck(actor, new(r))
               THEN "DENY"
          ELSE IF \E r \in hit : ~OrderCheck(new(r)) THEN "IntegrityViolation"
          ELSE IF \E r \in hit : ~OrderForeignKeys(new(r)) THEN "IntegrityViolation"
          ELSE "ALLOW"
    IN /\ orders' = IF outcome = "ALLOW"
                    THEN (orders \ hit) \cup {new(r) : r \in hit}
                    ELSE orders
       /\ last' = Response("update_orders", actor, target, col, outcome)
       /\ UNCHANGED <<user_profiles, products, order_items, reviews, messages, resourceVars,
                   inflight>>

\* the values a request may put in a column of orders
OrderColValues(col) ==
    CASE col = "status" -> OrderStatuses
      [] col = "payment_status" -> {"pending", "completed"}
      [] col = "total_amount" -> {0, 100}
      [] col = "buyer_id" -> Users
      [] col = "farmer_id" -> Users
      [] col = "delivery_address" -> Addresses

OrderCols ==
    {"status", "payment_status", "total_amount", "buyer_id", "farmer_id",
     "delivery_address"}

\* the orders a placement request proposes: status and payment_status default
OrderPayloads ==
    [buyer_id : Users, farmer_id : Users, total_amount : {0, 100},
     status : {"pending"}, payment_status : {"pending"}, delivery_address : {"a1"}]

InitOrders ==
    /\ user_profiles = SeedProfiles
    /\ products = {}
    /\ orders = {}
    /\ order_items = {}
    /\ reviews = {}
    /\ messages = {}
    /\ educational_resources = {}
    /\ resource_bookmarks = {}
    /\ resources = [u \in Users |-> {}]
    /\ expandedResource = [u \in Users |-> NULL]
    /\ inflight = {}
    /\ last = NoRequest

NextOrders ==
    \/ \E actor \in Users, payload \in OrderPayloads : InsertOrder(actor, payload)
    \/ \E actor \in Users, target \in OrderIds, col \in OrderCols :
         \E val \in OrderColValues(col) : UpdateOrder(actor, target, col, val)

SpecOrders == InitOrders /\ [][NextOrders]_vars

(***************************************************************************)
(* Claims about orders                                                     *)
(***************************************************************************)
\* the status changes the specification allows
StatusTransitions ==
    {<<"pending", "confirmed">>, <<"confirmed", "shipped">>,
     <<"shipped", "delivered">>, <<"pending", "cancelled">>,
     <<"confirmed", "cancelled">>, <<"shipped", "cancelled">>}

\* C4: every accepted change of an order's status is one of
\* pending->confirmed->shipped->delivered or pending/confirmed/shipped->
\* cancelled, so a delivered or cancelled order never changes status again.
C4_StatusTransitions ==
    [][\A o \in orders : \A n \in orders' :
         (n.id = o.id /\ n.status # o.status) =>
           <<o.status, n.status>> \in StatusTransitions]_vars

\* C9: every accepted update of an order is made by the order's farmer_id
\* and leaves total_amount, buyer_id, farmer_id and delivery_address as they
\* were at placement.
C9_OnlyStatusAndPaymentChange ==
    [][\A o \in orders : \A n \in orders' :
         (n.id = o.id /\ n # o) =>
           /\ last'.actor = o.farmer_id
           /\ n.total_amount = o.total_amount
           /\ n.buyer_id = o.buyer_id
           /\ n.farmer_id = o.farmer_id
           /\ n.delivery_address = o.delivery_address]_vars

(***************************************************************************)
(* products                                                                *)
(***************************************************************************)
\* the most products rows the model stores
MaxProducts == 2

ProductIds == 1..MaxProducts

\* the foreign key of a products row
ProductForeignKeys(row) == \E p \in user_profiles : p.id = row.farmer_id

\* CHECK (price >= 0), CHECK (stock_quantity >= 0)
ProductCheck(row) == row.price >= 0 /\ row.stock_quantity >= 0

\* a mutant of the read policy: the 'buyer' role is left out
FarmersCanReadOwnProductsNoBuyer(uid, row) ==
    row.farmer_id = uid \/ HasRole(uid, {"admin"})

FarmersCanReadOwnProducts(uid, row) ==
    row.farmer_id = uid \/ HasRole(uid, {"admin", "buyer"})

FarmersCanCreateOwnProducts(uid, row) ==
    row.farmer_id = uid /\ HasRole(uid, {"farmer"})

FarmersCanUpdateOwnProductsUsing(uid, row) == row.farmer_id = uid

\* a mutant of the update policy: WITH CHECK is left out
FarmersCanUpdateOwnProductsCheckNone(uid, new) == TRUE

FarmersCanUpdateOwnProductsCheck(uid, new) == new.farmer_id = uid

FarmersCanDeleteOwnProducts(uid, row) == row.farmer_id = uid

\* SELECT ... FROM products as uid: the rows the policy lets through
ProductsVisibleTo(uid) == {r \in products : FarmersCanReadOwnProducts(uid, r)}

\* a select on products with no filter of its own
SelectProducts(actor) ==
    /\ last' = ReadResponse("select_products", actor, ProductsVisibleTo(actor))
    /\ UNCHANGED <<user_profiles, products, orders, order_items, reviews, messages, resourceVars,
                   inflight>>

\* a mutant of the listing: the .gt('stock_quantity', 0) filter is left out
loadProductsAnyStock(actor) ==
    /\ last' = ReadResponse("loadProducts", actor,
                 {r \in ProductsVisibleTo(actor) : r.is_active})
    /\ UNCHANGED <<user_profiles, products, orders, order_items, reviews, messages, resourceVars,
                   inflight>>

\* Products.loadProducts: .eq('is_active', true).gt('stock_quantity', 0)
loadProducts(actor) ==
    /\ last' = ReadResponse("loadProducts", actor,
                 {r \in ProductsVisibleTo(actor) : r.is_active /\ r.stock_quantity > 0})
    /\ UNCHANGED <<user_profiles, products, orders, order_items, reviews, messages, resourceVars,
                   inflight>>

\* INSERT INTO products (...) VALUES (...), as actor; id defaults
InsertProduct(actor, payload) ==
    LET id == FreshId(ProductIds, products)
        row == [id |-> id, farmer_id |-> payload.farmer_id, price |-> payload.price,
                stock_quantity |-> payload.stock_quantity,
                is_active |-> payload.is_active]
        outcome ==
          IF ~FarmersCanCreateOwnProducts(actor, row) THEN "DENY"
          ELSE IF ~ProductCheck(row) THEN "IntegrityViolation"
          ELSE IF ~ProductForeignKeys(row) THEN "IntegrityViolation"
          ELSE "ALLOW"
    IN /\ id # NULL
       /\ products' = IF outcome = "ALLOW" THEN products \cup {row} ELSE products
       /\ last' = Response("insert_products", actor, NULL, "none", outcome)
       /\ UNCHANGED <<user_profiles, orders, order_items, reviews, messages, resourceVars,
                   inflight>>

\* UPDATE products SET col = val WHERE id = target, as actor
UpdateProduct(actor, target, col, val) ==
    LET hit == {r \in products :
                  /\ r.id = target
                  /\ FarmersCanReadOwnProducts(actor, r)
                  /\ FarmersCanUpdateOwnProductsUsing(actor, r)}
        new(r) == SetCol(r, col, val)
        outcome ==
          IF hit = {} THEN "DENY"
          ELSE IF \E r \in hit : ~FarmersCanUpdateOwnProductsCheck(actor, new(r))
               THEN "DENY"
          ELSE IF \E r \in hit : ~ProductCheck(new(r)) THEN "IntegrityViolation"
          ELSE IF \E r \in hit : ~ProductForeignKeys(new(r)) THEN "IntegrityViolation"
          ELSE "ALLOW"
    IN /\ products' = IF outcome = "ALLOW"
                      THEN (products \ hit) \cup {new(r) : r \in hit}
                      ELSE products
       /\ last' = Response("update_products", actor, target, col, outcome)
       /\ UNCHANGED <<user_profiles, orders, order_items, reviews, messages, resourceVars,
                   inflight>>

\* the values a request may put in a column of products
ProductColValues(col) ==
    CASE col = "farmer_id" -> Users
      [] col = "stock_quantity" -> {0, 5}
      [] col = "is_active" -> BOOLEAN

ProductCols == {"farmer_id", "stock_quantity", "is_active"}

\* the products a listing request proposes: is_active defaults to true
ProductPayloads ==
    [farmer_id : Users, price : {50}, stock_quantity : {0, 5}, is_active : {TRUE}]

InitProducts ==
    /\ user_profiles = SeedProfiles
    /\ products = {}
    /\ orders = {}
    /\ order_items = {}
    /\ reviews = {}
    /\ messages = {}
    /\ educational_resources = {}
    /\ resource_bookmarks = {}
    /\ resources = [u \in Users |-> {}]
    /\ expandedResource = [u \in Users |-> NULL]
    /\ inflight = {}
    /\ last = NoRequest

NextProducts ==
    \/ \E actor \in Users, payload \in ProductPayloads : InsertProduct(actor, payload)
    \/ \E actor \in Users, target \in ProductIds, col \in ProductCols :
         \E val \in ProductColValues(col) : UpdateProduct(actor, target, col, val)
    \/ \E actor \in Users : SelectProducts(actor)
    \/ \E actor \in Users : loadProducts(actor)

SpecProducts == InitProducts /\ [][NextProducts]_vars

(***************************************************************************)
(* Claims about products                                                   *)
(***************************************************************************)
\* C5: a product with is_active = false is never among the rows a read by a
\* buyer-role actor returns, while a read of products by its owning farmer
\* or by an admin does return it.
C5_InactiveHiddenFromBuyers ==
    \A p \in products : ~p.is_active =>
      /\ ( /\ last.op \in {"select_products", "loadProducts"}
           /\ HasRole(last.actor, {"buyer"}) ) => p \notin last.rows
      /\ ( /\ last.op = "select_products"
           /\ (last.actor = p.farmer_id \/ HasRole(last.actor, {"admin"})) )
           => p \in last.rows

(***************************************************************************)
(* order_items                                                             *)
(***************************************************************************)
\* the most order_items rows the model stores
MaxOrderItems == 1

OrderItemIds == 1..MaxOrderItems

\* the foreign keys of an order_items row
OrderItemForeignKeys(row) ==
    /\ \E o \in orders : o.id = row.order_id
    /\ \E p \in products : p.id = row.product_id

\* CHECK (quantity > 0), CHECK (unit_price >= 0), CHECK (subtotal >= 0)
OrderItemCheck(row) ==
    /\ row.quantity > 0
    /\ row.unit_price >= 0
    /\ row.subtotal >= 0

\* the sub-select on orders runs as uid, under the orders SELECT policies
UsersCanReadOrderItemsForTheirOrders(uid, row) ==
    \E o \in orders :
      /\ OrderSelectPolicy(uid, o)
      /\ o.id = row.order_id
      /\ (o.buyer_id = uid \/ o.farmer_id = uid)

BuyersCanCreateOrderItems(uid, row) ==
    \E o \in orders :
      /\ OrderSelectPolicy(uid, o)
      /\ o.id = row.order_id
      /\ o.buyer_id = uid

\* INSERT INTO order_items (...) VALUES (...), as actor; id defaults
InsertOrderItem(actor, payload) ==
    LET id == FreshId(OrderItemIds, order_items)
        row == [id |-> id, order_id |-> payload.order_id,
                product_id |-> payload.product_id, quantity |-> payload.quantity,
                unit_price |-> payload.unit_price, subtotal |-> payload.subtotal]
        outcome ==
          IF ~BuyersCanCreateOrderItems(actor, row) THEN "DENY"
          ELSE IF ~OrderItemCheck(row) THEN "IntegrityViolation"
          ELSE IF ~OrderItemForeignKeys(row) THEN "IntegrityViolation"
          ELSE "ALLOW"
    IN /\ id # NULL
       /\ order_items' = IF outcome = "ALLOW" THEN order_items \cup {row}
                         ELSE order_items
       /\ last' = Response("insert_order_items", actor, NULL, "none", outcome)
       /\ UNCHANGED <<user_profiles, products, orders, reviews, messages, resourceVars,
                   inflight>>

(***************************************************************************)
(* reviews                                                                 *)
(***************************************************************************)
\* the most reviews rows the model stores
MaxReviews == 2

ReviewIds == 1..MaxReviews

\* the foreign keys of a reviews row; order_id is nullable
ReviewForeignKeys(row) ==
    /\ \E p \in products : p.id = row.product_id
    /\ \E p \in user_profiles : p.id = row.buyer_id
    /\ RefOrNull(row.order_id, orders)

\* a mutant of the CHECK: the upper end is left out
ReviewCheckLowerOnly(row) == row.rating >= 1

\* CHECK (rating >= 1 AND rating <= 5)
ReviewCheck(row) == row.rating >= 1 /\ row.rating <= 5

\* UNIQUE(product_id, buyer_id, order_id): a unique index holds two rows apart
\* only when all three columns are non-null and equal; rows whose order_id is
\* NULL never conflict
ReviewUnique(row, table) ==
    \A r \in table :
      ~( /\ r.product_id = row.product_id
         /\ r.buyer_id = row.buyer_id
         /\ r.order_id # NULL
         /\ row.order_id # NULL
         /\ r.order_id = row.order_id )

AnyoneCanReadReviews(uid, row) == TRUE

\* a mutant of the insert policy: the order's status is not looked at
BuyersCanCreateReviewsForPurchasedProductsAnyStatus(uid, row) ==
    /\ row.buyer_id = uid
    /\ HasRole(uid, {"buyer"})
    /\ \E i \in order_items : \E o \in orders :
         /\ o.id = i.order_id
         /\ i.product_id = row.product_id
         /\ o.buyer_id = uid

\* the join of order_items and orders runs as uid, under their SELECT policies
BuyersCanCreateReviewsForPurchasedProducts(uid, row) ==
    /\ row.buyer_id = uid
    /\ HasRole(uid, {"buyer"})
    /\ \E i \in order_items : \E o \in orders :
         /\ UsersCanReadOrderItemsForTheirOrders(uid, i)
         /\ OrderSelectPolicy(uid, o)
         /\ o.id = i.order_id
         /\ i.product_id = row.product_id
         /\ o.buyer_id = uid
         /\ o.status = "delivered"

\* INSERT INTO reviews (...) VALUES (...), as actor; id defaults
InsertReview(actor, payload) ==
    LET id == FreshId(ReviewIds, reviews)
        row == [id |-> id, product_id |-> payload.product_id,
                buyer_id |-> payload.buyer_id, order_id |-> payload.order_id,
                rating |-> payload.rating]
        outcome ==
          IF ~BuyersCanCreateReviewsForPurchasedProducts(actor, row) THEN "DENY"
          ELSE IF ~ReviewCheck(row) THEN "IntegrityViolation"
          ELSE IF ~ReviewUnique(row, reviews) THEN "IntegrityViolation"
          ELSE IF ~ReviewForeignKeys(row) THEN "IntegrityViolation"
          ELSE "ALLOW"
    IN /\ id # NULL
       /\ reviews' = IF outcome = "ALLOW" THEN reviews \cup {row} ELSE reviews
       /\ last' = Response("insert_reviews", actor, NULL, "none", outcome)
       /\ UNCHANGED <<user_profiles, products, orders, order_items, messages, resourceVars,
                   inflight>>

\* two products listed by the farmer u2
SeedProducts ==
    {[id |-> 1, farmer_id |-> "u2", price |-> 50, stock_quantity |-> 5,
      is_active |-> TRUE],
     [id |-> 2, farmer_id |-> "u2", price |-> 50, stock_quantity |-> 5,
      is_active |-> TRUE]}

\* the orders, order items and reviews the requests of SpecReviews propose
ReviewOrderPayloads ==
    [buyer_id : {"u3"}, farmer_id : {"u2"}, total_amount : {100},
     status : {"pending"}, payment_status : {"pending"}, delivery_address : {"a1"}]

ReviewItemPayloads ==
    [order_id : OrderIds, product_id : {1, 2}, quantity : {2}, unit_price : {50},
     subtotal : {100}]

ReviewPayloads ==
    [product_id : {1, 2}, buyer_id : Users, order_id : {NULL, 1}, rating : {5}]

InitReviews ==
    /\ user_profiles = SeedProfiles
    /\ products = SeedProducts
    /\ orders = {}
    /\ order_items = {}
    /\ reviews = {}
    /\ messages = {}
    /\ educational_resources = {}
    /\ resource_bookmarks = {}
    /\ resources = [u \in Users |-> {}]
    /\ expandedResource = [u \in Users |-> NULL]
    /\ inflight = {}
    /\ last = NoRequest

\* orders are placed by the buyer and moved by their farmer (status, or handed
\* to another buyer_id); any actor tries to insert any review
NextReviews ==
    \/ \E payload \in ReviewOrderPayloads : InsertOrder(payload.buyer_id, payload)
    \/ \E o \in orders, val \in {"pending", "delivered"} :
         UpdateOrder(o.farmer_id, o.id, "status", val)
    \/ \E o \in orders, val \in {"u1", "u3"} :
         UpdateOrder(o.farmer_id, o.id, "buyer_id", val)
    \/ \E payload \in ReviewItemPayloads : InsertOrderItem("u3", payload)
    \/ \E actor \in Users, payload \in ReviewPayloads : InsertReview(actor, payload)

SpecReviews == InitReviews /\ [][NextReviews]_vars

(***************************************************************************)
(* Claims about reviews                                                    *)
(***************************************************************************)
\* C2: a review row is stored only by an accepted insert, and an insert by
\* actor A is accepted only if the new row's buyer_id is A, A's role is
\* buyer, and in the store the insert was served from an order_item refers
\* to the row's product on an order whose buyer_id is A and whose status is
\* 'delivered'; with no such order_item the insert is not accepted.
C2_ReviewNeedsDeliveredOrder ==
    [][/\ reviews' # reviews =>
            (last'.op = "insert_reviews" /\ last'.outcome = "ALLOW")
       /\ (last'.op = "insert_reviews" /\ last'.outcome = "ALLOW") =>
            \E r \in reviews' \ reviews :
              /\ reviews' = reviews \cup {r}
              /\ r.buyer_id = last'.actor
              /\ \E p \in user_profiles : p.id = last'.actor /\ p.role = "buyer"
              /\ \E i \in order_items : \E o \in orders :
                   /\ i.product_id = r.product_id
                   /\ i.order_id = o.id
                   /\ o.buyer_id = last'.actor
                   /\ o.status = "delivered"]_vars

\* a buyer whose delivered order holds the product has just had a review of
\* it accepted
C2_Witness ==
    /\ last.op = "insert_reviews"
    /\ last.outcome = "ALLOW"
    /\ \E r \in reviews : \E i \in order_items : \E o \in orders :
         /\ r.buyer_id = last.actor
         /\ i.product_id = r.product_id
         /\ i.order_id = o.id
         /\ o.buyer_id = last.actor
         /\ o.status = "delivered"

\* C3: no two review rows share the same (product_id, buyer_id, order_id)
\* triple, a missing order_id included.
C3_ReviewTripleUnique ==
    \A r1 \in reviews : \A r2 \in reviews :
      ( /\ r1.product_id = r2.product_id
        /\ r1.buyer_id = r2.buyer_id
        /\ r1.order_id = r2.order_id ) => r1.id = r2.id

(***************************************************************************)
(* Order placement                                                         *)
(***************************************************************************)
RECURSIVE SumSubtotals(_)
\* the sum of the subtotals of a set of order_items rows
SumSubtotals(items) ==
    IF items = {} THEN 0
    ELSE LET i == CHOOSE x \in items : TRUE
         IN i.subtotal + SumSubtotals(items \ {i})

PlacementOrderPayloads ==
    [buyer_id : Users, farmer_id : {"u2"}, total_amount : {50, 100},
     status : {"pending"}, payment_status : {"pending"}, delivery_address : {"a1"}]

PlacementItemPayloads ==
    [order_id : OrderIds, product_id : {1, 2}, quantity : {1, 2, 0},
     unit_price : {50}, subtotal : {0, 50, 100}]

InitPlacement ==
    /\ user_profiles = SeedProfiles
    /\ products = SeedProducts
    /\ orders = {}
    /\ order_items = {}
    /\ reviews = {}
    /\ messages = {}
    /\ educational_resources = {}
    /\ resource_bookmarks = {}
    /\ resources = [u \in Users |-> {}]
    /\ expandedResource = [u \in Users |-> NULL]
    /\ inflight = {}
    /\ last = NoRequest

\* a buyer places an order and adds its items, one request each
NextPlacement ==
    \/ \E actor \in Users, payload \in PlacementOrderPayloads :
         InsertOrder(actor, payload)
    \/ \E actor \in Users, payload \in PlacementItemPayloads :
         InsertOrderItem(actor, payload)
    \/ \E o \in orders, val \in {"pending", "confirmed", "cancelled"} :
         UpdateOrder(o.farmer_id, o.id, "status", val)

SpecPlacement == InitPlacement /\ [][NextPlacement]_vars

\* C10: every order_item's subtotal equals quantity * unit_price, and the
\* total_amount of every order that has order_items equals the sum of their
\* subtotals.
C10_SubtotalsAndTotal ==
    /\ \A i \in order_items : i.subtotal = i.quantity * i.unit_price
    /\ \A o \in orders :
         LET items == {i \in order_items : i.order_id = o.id}
         IN items # {} => o.total_amount = SumSubtotals(items)

\* C11: a buyer's listing of active products (Products.loadProducts) returns
\* a product exactly when it is active and its stock_quantity is above 0: a
\* product whose stock is 0 is left out although is_active is still true,
\* and it is listed again only once its stock is above 0.
C11_OutOfStockHidden ==
    (last.op = "loadProducts" /\ HasRole(last.actor, {"buyer"})) =>
      \A p \in products :
        p \in last.rows <=> (p.is_active /\ p.stock_quantity > 0)

\* a buyer has just listed the products while an active product of the
\* farmer had stock 0, and the listing left it out
C11_Witness ==
    /\ last.op = "loadProducts"
    /\ HasRole(last.actor, {"buyer"})
    /\ \E p \in products :
         p.is_active /\ p.stock_quantity = 0 /\ p \notin last.rows
    /\ \E p \in products : p \in last.rows

(***************************************************************************)
(* product ownership: inserts, updates and deletes of products next to     *)
(* attempts to change an account's role                                    *)
(***************************************************************************)
\* a mutant of the delete: the reviews of the product are kept
DeleteProductKeepReviews(actor, target) ==
    LET hit == {r \in products :
                  /\ r.id = target
                  /\ FarmersCanReadOwnProducts(actor, r)
                  /\ FarmersCanDeleteOwnProducts(actor, r)}
        outcome == IF hit = {} THEN "DENY" ELSE "ALLOW"
    IN /\ products' = products \ hit
       /\ order_items' = {i \in order_items : \A r \in hit : i.product_id # r.id}
       /\ messages' = {IF \E r \in hit : m.product_id = r.id
                       THEN [m EXCEPT !.product_id = NULL] ELSE m : m \in messages}
       /\ last' = Response("delete_products", actor, target, "none", outcome)
       /\ UNCHANGED <<user_profiles, orders, reviews, resourceVars, inflight>>

\* DELETE FROM products WHERE id = target, as actor; the rows that refer to
\* the product follow their ON DELETE rule
DeleteProduct(actor, target) ==
    LET hit == {r \in products :
                  /\ r.id = target
                  /\ FarmersCanReadOwnProducts(actor, r)
                  /\ FarmersCanDeleteOwnProducts(actor, r)}
        outcome == IF hit = {} THEN "DENY" ELSE "ALLOW"
    IN /\ products' = products \ hit
       /\ order_items' = {i \in order_items : \A r \in hit : i.product_id # r.id}
       /\ reviews' = {v \in reviews : \A r \in hit : v.product_id # r.id}
       /\ messages' = {IF \E r \in hit : m.product_id = r.id
                       THEN [m EXCEPT !.product_id = NULL] ELSE m : m \in messages}
       /\ last' = Response("delete_products", actor, target, "none", outcome)
       /\ UNCHANGED <<user_profiles, orders, resourceVars, inflight>>

\* accounts of a market with two farmers and a buyer
FarmerPairProfiles ==
    {[id |-> "u1", role |-> "farmer", full_name |-> "n1"],
     [id |-> "u2", role |-> "farmer", full_name |-> "n1"],
     [id |-> "u3", role |-> "buyer", full_name |-> "n1"]}

\* the products a farmer's form proposes
OwnerPayloads ==
    [farmer_id : Users, price : {50}, stock_quantity : {5}, is_active : {TRUE}]

OwnerCols == {"farmer_id", "is_active"}

InitProductOwners ==
    /\ user_profiles \in {SeedProfiles, FarmerPairProfiles}
    /\ products = {}
    /\ orders = {}
    /\ order_items = {}
    /\ reviews = {}
    /\ messages = {}
    /\ educational_resources = {}
    /\ resource_bookmarks = {}
    /\ resources = [u \in Users |-> {}]
    /\ expandedResource = [u \in Users |-> NULL]
    /\ inflight = {}
    /\ last = NoRequest

NextProductOwners ==
    \/ \E actor \in Users, payload \in OwnerPayloads : InsertProduct(actor, payload)
    \/ \E actor \in Users, target \in ProductIds, col \in OwnerCols :
         \E val \in ProductColValues(col) : UpdateProduct(actor, target, col, val)
    \/ \E actor \in Users, target \in ProductIds : DeleteProduct(actor, target)
    \/ \E actor \in Users : SelectProducts(actor)
    \/ \E actor \in Users, target \in Users, val \in Roles :
         UpdateUserProfile(actor, target, "role", val)

SpecProductOwners == InitProductOwners /\ [][NextProductOwners]_vars

\* C12: after every step, every product's farmer_id is the id of an
\* existing account whose role is farmer, and a product that exists before
\* and after the step has the farmer_id it had before.
C12_ProductOwnerFixed ==
    [][/\ \A p \in products' :
            \E u \in user_profiles' : u.id = p.farmer_id /\ u.role = "farmer"
       /\ \A p \in products, q \in products' :
            p.id = q.id => q.farmer_id = p.farmer_id]_vars

\* a farmer who owns a product has just tried to give up the farmer role and
\* was denied, the product still being theirs
C12_Witness ==
    /\ last.op = "update_user_profiles"
    /\ last.col = "role"
    /\ last.actor = last.target
    /\ last.outcome = "DENY"
    /\ HasRole(last.actor, {"farmer"})
    /\ \E p \in products : p.farmer_id = last.actor

\* C13 as stated: an update of an existing product is let through by the
\* policies exactly when the actor is the row's farmer_id.
C13_UpdateIffOwner ==
    [][(last'.op = "update_products"
          /\ \E r \in products : r.id = last'.target)
       => (last'.outcome # "DENY"
             <=> \E r \in products :
                   r.id = last'.target /\ r.farmer_id = last'.actor)]_vars

\* C13: for every actor and product row the policies decide as follows. A
\* read returns the row iff the actor is its farmer_id or has the admin or
\* buyer role. An insert passes iff the actor is the proposed farmer_id and
\* has the farmer role. An update passes iff the actor is the row's
\* farmer_id and is still the farmer_id of the row the update proposes. A
\* delete passes iff the actor is the row's farmer_id.
C13_ProductRule ==
    [][/\ last'.op = "select_products" =>
            last'.rows = {r \in products :
                            \/ r.farmer_id = last'.actor
                            \/ \E u \in user_profiles :
                                 u.id = last'.actor /\ u.role \in {"admin", "buyer"}}
       /\ last'.op = "insert_products" =>
            \A payload \in OwnerPayloads :
              InsertProduct(last'.actor, payload) =>
                (last'.outcome # "DENY"
                   <=> /\ payload.farmer_id = last'.actor
                       /\ \E u \in user_profiles :
                            u.id = last'.actor /\ u.role = "farmer")
       /\ last'.op = "update_products" =>
            \A val \in ProductColValues(last'.col) :
              UpdateProduct(last'.actor, last'.target, last'.col, val) =>
                (last'.outcome # "DENY"
                   <=> \E r \in products :
                         /\ r.id = last'.target
                         /\ r.farmer_id = last'.actor
                         /\ SetCol(r, last'.col, val).farmer_id = last'.actor)
       /\ last'.op = "delete_products" =>
            (last'.outcome # "DENY"
               <=> \E r \in products :
                     r.id = last'.target /\ r.farmer_id = last'.actor)]_vars

\* the owner of a product has just tried to hand it to the other farmer and
\* was denied
C13_Witness ==
    /\ last.op = "update_products"
    /\ last.col = "farmer_id"
    /\ last.outcome = "DENY"
    /\ \E p \in products : p.id = last.target /\ p.farmer_id = last.actor
    /\ \E u \in user_profiles : u.id # last.actor /\ u.role = "farmer"

\* C14: in every state every order's buyer_id is an account with the buyer
\* role and its farmer_id is an account with the farmer role.
C14_OrderLinksBuyerAndFarmer ==
    \A o \in orders :
      /\ HasRole(o.buyer_id, {"buyer"})
      /\ HasRole(o.farmer_id, {"farmer"})

\* C15: an order_items row is added only by the buyer_id of its parent
\* order, and only while that order is still pending.
C15_ItemsOnlyWhilePending ==
    [][\A i \in order_items' \ order_items :
         \E o \in orders :
           /\ o.id = i.order_id
           /\ o.buyer_id = last'.actor
           /\ o.status = "pending"]_vars

(***************************************************************************)
(* educational_resources                                                   *)
(***************************************************************************)
\* the most educational_resources rows the model stores
MaxResources == 1

ResourceIds == 1..MaxResources

\* the highest view_count a view raises a counter to
MaxViews == 1

\* author_id of a resource without an author (the column is nullable)
NoAuthor == "null"

\* author_id uuid REFERENCES user_profiles(id)
ResourceForeignKeys(row) ==
    row.author_id = NoAuthor \/ \E p \in user_profiles : p.id = row.author_id

\* a mutant of the read policy: the author is left out
AnyoneCanReadPublishedResourcesNoAuthor(uid, row) ==
    row.is_published \/ HasRole(uid, {"admin"})

AnyoneCanReadPublishedResources(uid, row) ==
    row.is_published \/ row.author_id = uid \/ HasRole(uid, {"admin"})

\* a mutant of the FOR ALL policy: every account passes
AdminsCanManageResourcesAnyRole(uid, row) == TRUE

\* FOR ALL: USING and WITH CHECK are the same condition
AdminsCanManageResources(uid, row) == HasRole(uid, {"admin"})

\* the FOR SELECT policy and the FOR ALL policy are both permissive
ResourceSelectPolicy(uid, row) ==
    AnyoneCanReadPublishedResources(uid, row) \/ AdminsCanManageResources(uid, row)

ResourcesVisibleTo(uid) == {r \in educational_resources : ResourceSelectPolicy(uid, r)}

\* the rows deleted with a resource: resource_bookmarks ... ON DELETE CASCADE
BookmarksWithout(gone) ==
    {b \in resource_bookmarks : \A r \in gone : b.resource_id # r.id}

\* a select on educational_resources with no filter of its own
SelectResources(actor) ==
    /\ last' = ReadResponse("select_educational_resources", actor,
                            ResourcesVisibleTo(actor))
    /\ UNCHANGED <<user_profiles, products, orders, order_items, reviews, messages,
                   resourceVars, inflight>>

\* INSERT INTO educational_resources (...) VALUES (...), as actor; id and
\* view_count default
InsertResource(actor, payload) ==
    LET id == FreshId(ResourceIds, educational_resources)
        row == [id |-> id, author_id |-> payload.author_id,
                is_published |-> payload.is_published, view_count |-> 0]
        outcome ==
          IF ~AdminsCanManageResources(actor, row) THEN "DENY"
          ELSE IF ~ResourceForeignKeys(row) THEN "IntegrityViolation"
          ELSE "ALLOW"
    IN /\ id # NULL
       /\ educational_resources' = IF outcome = "ALLOW"
                                   THEN educational_resources \cup {row}
                                   ELSE educational_resources
       /\ last' = Response("insert_educational_resources", actor, NULL, "none", outcome)
       /\ UNCHANGED <<user_profiles, products, orders, order_items, reviews, messages,
                      resource_bookmarks, resources, expandedResource,
                   inflight>>

\* the rows UPDATE educational_resources ... WHERE id = target touches as actor
ResourceUpdateHit(actor, target) ==
    {r \in educational_resources :
       /\ r.id = target
       /\ ResourceSelectPolicy(actor, r)
       /\ AdminsCanManageResources(actor, r)}

ResourceUpdateOutcome(actor, target, col, val) ==
    LET hit == ResourceUpdateHit(actor, target)
    IN IF hit = {} THEN "DENY"
       ELSE IF \E r \in hit : ~AdminsCanManageResources(actor, SetCol(r, col, val))
            THEN "DENY"
       ELSE IF \E r \in hit : ~ResourceForeignKeys(SetCol(r, col, val))
            THEN "IntegrityViolation"
       ELSE "ALLOW"

\* the table after UPDATE educational_resources SET col = val WHERE id = target
ResourcesAfterUpdate(actor, target, col, val) ==
    LET hit == ResourceUpdateHit(actor, target)
    IN IF ResourceUpdateOutcome(actor, target, col, val) = "ALLOW"
       THEN (educational_resources \ hit) \cup {SetCol(r, col, val) : r \in hit}
       ELSE educational_resources

\* UPDATE educational_resources SET col = val WHERE id = target, as actor
UpdateResource(actor, target, col, val) ==
    /\ educational_resources' = ResourcesAfterUpdate(actor, target, col, val)
    /\ last' = Response("update_educational_resources", actor, target, col,
                        ResourceUpdateOutcome(actor, target, col, val))
    /\ UNCHANGED <<user_profiles, products, orders, order_items, reviews, messages,
                   resource_bookmarks, resources, expandedResource, inflight>>

\* DELETE FROM educational_resources WHERE id = target, as actor
DeleteResource(actor, target) ==
    LET hit == ResourceUpdateHit(actor, target)
    IN /\ educational_resources' = educational_resources \ hit
       /\ resource_bookmarks' = BookmarksWithout(hit)
       /\ last' = Response("delete_educational_resources", actor, target, "none",
                           IF hit = {} THEN "DENY" ELSE "ALLOW")
       /\ UNCHANGED <<user_profiles, products, orders, order_items, reviews, messages,
                      resources, expandedResource, inflight>>
(***************************************************************************)
(* the Resources page                                                      *)
(***************************************************************************)
\* no other user's Resources page holds state (the scenarios with one page
\* open at a time)
OnlyPage(actor) ==
    \A u \in Users \ {actor} : resources[u] = {} /\ expandedResource[u] = NULL

\* Resources.loadResources: .select('*').eq('is_published', true), then
\* setResources(data)
loadResources(actor) ==
    LET data == {r \in ResourcesVisibleTo(actor) : r.is_published}
    IN /\ resources' = [resources EXCEPT ![actor] = data]
       /\ last' = ReadResponse("loadResources", actor, data)
       /\ UNCHANGED <<user_profiles, products, orders, order_items, reviews, messages,
                      educational_resources, resource_bookmarks, expandedResource,
                   inflight>>

\* the page is left: its useState values are gone
closeResources(actor) ==
    /\ resources[actor] # {} \/ expandedResource[actor] # NULL
    /\ resources' = [resources EXCEPT ![actor] = {}]
    /\ expandedResource' = [expandedResource EXCEPT ![actor] = NULL]
    /\ last' = Response("closeResources", actor, NULL, "none", "none")
    /\ UNCHANGED <<user_profiles, products, orders, order_items, reviews, messages,
                   educational_resources, resource_bookmarks, inflight>>

\* the rows of the migration's seed INSERT: published, no author
SeedResources ==
    {[id |-> 1, author_id |-> NoAuthor, is_published |-> TRUE, view_count |-> 0]}

\* the authors a request names
Authors == {NoAuthor, "u2"}

ResourcePayloads == [author_id : Authors, is_published : BOOLEAN]

ResourceCols == {"is_published", "author_id"}

ResourceColValues(col) ==
    CASE col = "is_published" -> BOOLEAN
      [] col = "author_id" -> Authors

InitResources ==
    /\ user_profiles = SeedProfiles
    /\ products = {}
    /\ orders = {}
    /\ order_items = {}
    /\ reviews = {}
    /\ messages = {}
    /\ educational_resources = SeedResources
    /\ resource_bookmarks = {}
    /\ resources = [u \in Users |-> {}]
    /\ expandedResource = [u \in Users |-> NULL]
    /\ inflight = {}
    /\ last = NoRequest

NextResources ==
    \/ \E actor \in Users, payload \in ResourcePayloads : InsertResource(actor, payload)
    \/ \E actor \in Users, target \in ResourceIds, col \in ResourceCols :
         \E val \in ResourceColValues(col) : UpdateResource(actor, target, col, val)
    \/ \E actor \in Users, target \in ResourceIds : DeleteResource(actor, target)
    \/ \E actor \in Users : SelectResources(actor)
    \/ \E actor \in Users : OnlyPage(actor) /\ loadResources(actor)
    \/ \E actor \in Users : closeResources(actor)

SpecResources == InitResources /\ [][NextResources]_vars

\* C16: a read of educational_resources returns a resource to an actor iff
\* the resource is published, or the actor is its author_id, or the actor
\* has the admin role; the Resources page receives exactly the published
\* ones. So a farmer or buyer who is not the author never receives a
\* resource that is not published.
C16_ResourceRead ==
    LET allowed(uid) ==
          {r \in educational_resources :
             \/ r.is_published
             \/ r.author_id = uid
             \/ \E u \in user_profiles : u.id = uid /\ u.role = "admin"}
    IN /\ last.op = "select_educational_resources" =>
            last.rows = allowed(last.actor)
       /\ last.op = "loadResources" =>
            last.rows = {r \in allowed(last.actor) : r.is_published}

\* a farmer or buyer has just read the table while it held an unpublished
\* resource of which they are not the author, and did not receive it
C16_Witness ==
    /\ last.op = "select_educational_resources"
    /\ HasRole(last.actor, {"farmer", "buyer"})
    /\ \E r \in educational_resources :
         ~r.is_published /\ r.author_id # last.actor /\ r \notin last.rows

\* Resources.handleViewResource, on a card the page shows
handleViewResource(actor, resourceId) ==
    /\ \E r \in resources[actor] : r.id = resourceId
    /\ IF expandedResource[actor] = resourceId
       THEN /\ expandedResource' = [expandedResource EXCEPT ![actor] = NULL]
            /\ last' = Response("handleViewResource", actor, resourceId, "none", "none")
            /\ UNCHANGED <<educational_resources, resources>>
       ELSE LET resource == CHOOSE r \in resources[actor] : r.id = resourceId
                count == resource.view_count + 1
            IN /\ resource.view_count < MaxViews
               /\ expandedResource' = [expandedResource EXCEPT ![actor] = resourceId]
               /\ educational_resources' =
                    ResourcesAfterUpdate(actor, resourceId, "view_count", count)
               /\ resources' =
                    [resources EXCEPT ![actor] =
                       {IF r.id = resourceId
                        THEN [r EXCEPT !.view_count = r.view_count + 1] ELSE r :
                          r \in resources[actor]}]
               /\ last' = Response("handleViewResource", actor, resourceId, "view_count",
                            ResourceUpdateOutcome(actor, resourceId, "view_count", count))
    /\ UNCHANGED <<user_profiles, products, orders, order_items, reviews, messages,
                   resource_bookmarks, inflight>>

\* the resources an admin's form proposes here: no author named
ViewPayloads == [author_id : {NoAuthor}, is_published : BOOLEAN]

NextResourceViews ==
    \/ \E actor \in Users, payload \in ViewPayloads : InsertResource(actor, payload)
    \/ \E actor \in Users, target \in ResourceIds, val \in BOOLEAN :
         UpdateResource(actor, target, "is_published", val)
    \/ \E actor \in Users, target \in ResourceIds : DeleteResource(actor, target)
    \/ \E actor \in Users : OnlyPage(actor) /\ loadResources(actor)
    \/ \E actor \in Users, resourceId \in ResourceIds :
         handleViewResource(actor, resourceId)
    \/ \E actor \in Users : closeResources(actor)

SpecResourceViews == InitResources /\ [][NextResourceViews]_vars

\* C17: an insert of an educational resource, and an update or delete of an
\* existing one, passes the policies iff the actor has the admin role, and
\* the table changes only in a step of an admin; a view of a resource by a
\* farmer or buyer (handleViewResource) leaves every persisted row, its
\* view_count included, as it was.
C17_OnlyAdminsWrite ==
    [][LET admin == \E u \in user_profiles : u.id = last'.actor /\ u.role = "admin"
           exists == \E r \in educational_resources : r.id = last'.target
       IN /\ last'.op = "insert_educational_resources" =>
               (last'.outcome # "DENY" <=> admin)
          /\ (last'.op \in {"update_educational_resources",
                            "delete_educational_resources"} /\ exists) =>
               (last'.outcome # "DENY" <=> admin)
          /\ educational_resources' # educational_resources => admin
          /\ (last'.op = "handleViewResource" /\ ~admin) =>
               educational_resources' = educational_resources]_vars

\* a farmer or buyer has just opened a resource: the update of view_count
\* was denied, and the page shows one view more than the row holds
C17_Witness ==
    /\ last.op = "handleViewResource"
    /\ last.col = "view_count"
    /\ last.outcome = "DENY"
    /\ HasRole(last.actor, {"farmer", "buyer"})
    /\ \E r \in educational_resources, l \in resources[last.actor] :
         l.id = r.id /\ r.id = last.target /\ l.view_count = r.view_count + 1

(***************************************************************************)
(* resource_bookmarks                                                      *)
(***************************************************************************)
\* the most resource_bookmarks rows the model stores
MaxBookmarks == 2

BookmarkIds == 1..MaxBookmarks

\* the foreign keys of a resource_bookmarks row
BookmarkForeignKeys(row) ==
    /\ \E p \in user_profiles : p.id = row.user_id
    /\ \E r \in educational_resources : r.id = row.resource_id

\* UNIQUE(user_id, resource_id), against the rows of table
BookmarkUnique(row, table) ==
    \A b \in table :
      ~(b.user_id = row.user_id /\ b.resource_id = row.resource_id)

UsersCanReadOwnBookmarks(uid, row) == row.user_id = uid

UsersCanCreateOwnBookmarks(uid, row) == row.user_id = uid

UsersCanDeleteOwnBookmarks(uid, row) == row.user_id = uid

\* resource_bookmarks has no policy FOR UPDATE: with row level security
\* enabled, no row passes
NoBookmarkUpdatePolicy(uid, row) == FALSE

SelectBookmarks(actor) ==
    /\ last' = ReadResponse("select_resource_bookmarks", actor,
                 {b \in resource_bookmarks : UsersCanReadOwnBookmarks(actor, b)})
    /\ UNCHANGED <<user_profiles, products, orders, order_items, reviews, messages,
                   resourceVars, inflight>>

\* INSERT INTO resource_bookmarks (...) VALUES (...), as actor; id defaults
InsertBookmark(actor, payload) ==
    LET id == FreshId(BookmarkIds, resource_bookmarks)
        row == [id |-> id, user_id |-> payload.user_id,
                resource_id |-> payload.resource_id]
        outcome ==
          IF ~UsersCanCreateOwnBookmarks(actor, row) THEN "DENY"
          ELSE IF ~BookmarkUnique(row, resource_bookmarks) THEN "IntegrityViolation"
          ELSE IF ~BookmarkForeignKeys(row) THEN "IntegrityViolation"
          ELSE "ALLOW"
    IN /\ id # NULL
       /\ resource_bookmarks' = IF outcome = "ALLOW"
                                THEN resource_bookmarks \cup {row}
                                ELSE resource_bookmarks
       /\ last' = Response("insert_resource_bookmarks", actor, NULL, "none", outcome)
       /\ UNCHANGED <<user_profiles, products, orders, order_items, reviews, messages,
                      educational_resources, resources, expandedResource,
                   inflight>>

\* UPDATE resource_bookmarks SET col = val WHERE id = target, as actor
UpdateBookmark(actor, target, col, val) ==
    LET hit == {b \in resource_bookmarks :
                  /\ b.id = target
                  /\ UsersCanReadOwnBookmarks(actor, b)
                  /\ NoBookmarkUpdatePolicy(actor, b)}
        new(b) == SetCol(b, col, val)
        outcome ==
          IF hit = {} THEN "DENY"
          ELSE IF \E b \in hit : ~BookmarkUnique(new(b), resource_bookmarks \ hit)
               THEN "IntegrityViolation"
          ELSE IF \E b \in hit : ~BookmarkForeignKeys(new(b)) THEN "IntegrityViolation"
          ELSE "ALLOW"
    IN /\ resource_bookmarks' = IF outcome = "ALLOW"
                                THEN (resource_bookmarks \ hit) \cup {new(b) : b \in hit}
                                ELSE resource_bookmarks
       /\ last' = Response("update_resource_bookmarks", actor, target, col, outcome)
       /\ UNCHANGED <<user_profiles, products, orders, order_items, reviews, messages,
                      educational_resources, resources, expandedResource,
                   inflight>>

\* DELETE FROM resource_bookmarks WHERE id = target, as actor
DeleteBookmark(actor, target) ==
    LET hit == {b \in resource_bookmarks :
                  /\ b.id = target
                  /\ UsersCanReadOwnBookmarks(actor, b)
                  /\ UsersCanDeleteOwnBookmarks(actor, b)}
    IN /\ resource_bookmarks' = resource_bookmarks \ hit
       /\ last' = Response("delete_resource_bookmarks", actor, target, "none",
                           IF hit = {} THEN "DENY" ELSE "ALLOW")
       /\ UNCHANGED <<user_profiles, products, orders, order_items, reviews, messages,
                      educational_resources, resources, expandedResource,
                   inflight>>

BookmarkPayloads == [user_id : Users, resource_id : ResourceIds]

NextBookmarks ==
    \/ \E actor \in Users, payload \in BookmarkPayloads : InsertBookmark(actor, payload)
    \/ \E actor \in Users, target \in BookmarkIds, val \in ResourceIds :
         UpdateBookmark(actor, target, "resource_id", val)
    \/ \E actor \in Users, target \in BookmarkIds : DeleteBookmark(actor, target)
    \/ \E actor \in Users : SelectBookmarks(actor)

SpecBookmarks == InitResources /\ [][NextBookmarks]_vars

\* C18: every operation on a resource bookmark passes the policies iff the
\* actor is the row's user_id: a create of a row naming the actor, a read
\* returning the actor's rows, an update and a delete of an existing row.
C18_BookmarkOwnerOnly ==
    [][/\ last'.op = "insert_resource_bookmarks" =>
            \A payload \in BookmarkPayloads :
              InsertBookmark(last'.actor, payload) =>
                (last'.outcome # "DENY" <=> payload.user_id = last'.actor)
       /\ last'.op = "select_resource_bookmarks" =>
            last'.rows = {b \in resource_bookmarks : b.user_id = last'.actor}
       /\ last'.op \in {"update_resource_bookmarks", "delete_resource_bookmarks"} =>
            \A b \in resource_bookmarks :
              b.id = last'.target =>
                (last'.outcome # "DENY" <=> b.user_id = last'.actor)]_vars

(***************************************************************************)
(* requests with values outside the ranges and enumerations of the tables  *)
(***************************************************************************)
BuyersCanUpdateOwnReviewsUsing(uid, row) == row.buyer_id = uid

BuyersCanUpdateOwnReviewsCheck(uid, new) == new.buyer_id = uid

\* UPDATE reviews SET col = val WHERE id = target, as actor
UpdateReview(actor, target, col, val) ==
    LET hit == {r \in reviews :
                  /\ r.id = target
                  /\ AnyoneCanReadReviews(actor, r)
                  /\ BuyersCanUpdateOwnReviewsUsing(actor, r)}
        new(r) == SetCol(r, col, val)
        outcome ==
          IF hit = {} THEN "DENY"
          ELSE IF \E r \in hit : ~BuyersCanUpdateOwnReviewsCheck(actor, new(r))
               THEN "DENY"
          ELSE IF \E r \in hit : ~ReviewCheck(new(r)) THEN "IntegrityViolation"
          ELSE IF \E r \in hit : ~ReviewUnique(new(r), reviews \ hit)
               THEN "IntegrityViolation"
          ELSE IF \E r \in hit : ~ReviewForeignKeys(new(r)) THEN "IntegrityViolation"
          ELSE "ALLOW"
    IN /\ reviews' = IF outcome = "ALLOW"
                     THEN (reviews \ hit) \cup {new(r) : r \in hit}
                     ELSE reviews
       /\ last' = Response("update_reviews", actor, target, col, outcome)
       /\ UNCHANGED <<user_profiles, products, orders, order_items, messages, resourceVars,
                   inflight>>

\* the rows and values the requests propose: one inside and some outside
\* each range or enumeration
IntegrityProfileRows == [id : {"u1"}, role : {"admin", "guest"}, full_name : {"n1"}]

IntegrityProductPayloads ==
    [farmer_id : {"u2"}, price : {-1, 50}, stock_quantity : {-1, 5}, is_active : {TRUE}]

IntegrityOrderPayloads ==
    [buyer_id : {"u3"}, farmer_id : {"u2"}, total_amount : {-1, 100},
     status : {"pending", "bogus"}, payment_status : {"pending", "bogus"},
     delivery_address : {"a1"}]

IntegrityItemPayloads ==
    [order_id : {1}, product_id : {1}, quantity : {0, 1}, unit_price : {-1, 50},
     subtotal : {-1, 50}]

IntegrityReviewPayloads ==
    [product_id : {1}, buyer_id : {"u3"}, order_id : {NULL}, rating : {0, 3, 6}]

IntegrityColValues(col) ==
    CASE col = "role" -> {"guest", "buyer"}
      [] col = "price" -> {-1}
      [] col = "stock_quantity" -> {-1}
      [] col = "total_amount" -> {-1}
      [] col = "status" -> {"delivered", "bogus"}
      [] col = "payment_status" -> {"bogus"}
      [] col = "rating" -> {0, 4, 6}

\* the farmer and the buyer have signed up; u1 has no profile yet
InitIntegrity ==
    /\ user_profiles = {p \in SeedProfiles : p.id # "u1"}
    /\ products = {}
    /\ orders = {}
    /\ order_items = {}
    /\ reviews = {}
    /\ messages = {}
    /\ educational_resources = {}
    /\ resource_bookmarks = {}
    /\ resources = [u \in Users |-> {}]
    /\ expandedResource = [u \in Users |-> NULL]
    /\ inflight = {}
    /\ last = NoRequest

NextIntegrity ==
    \/ \E actor \in Users, row \in IntegrityProfileRows : InsertUserProfile(actor, row)
    \/ \E actor \in Users, val \in IntegrityColValues("role") :
         UpdateUserProfile(actor, actor, "role", val)
    \/ \E actor \in Users, payload \in IntegrityProductPayloads :
         InsertProduct(actor, payload)
    \/ \E actor \in Users, target \in ProductIds, col \in {"price", "stock_quantity"} :
         \E val \in IntegrityColValues(col) : UpdateProduct(actor, target, col, val)
    \/ \E actor \in Users, payload \in IntegrityOrderPayloads : InsertOrder(actor, payload)
    \/ \E actor \in Users, target \in OrderIds,
          col \in {"total_amount", "status", "payment_status"} :
         \E val \in IntegrityColValues(col) : UpdateOrder(actor, target, col, val)
    \/ \E actor \in Users, payload \in IntegrityItemPayloads :
         InsertOrderItem(actor, payload)
    \/ \E actor \in Users, payload \in IntegrityReviewPayloads :
         InsertReview(actor, payload)
    \/ \E actor \in Users, target \in ReviewIds, val \in IntegrityColValues("rating") :
         UpdateReview(actor, target, "rating", val)

SpecIntegrity == InitIntegrity /\ [][NextIntegrity]_vars

C20_RangesHold ==
    /\ \A p \in products : p.price >= 0 /\ p.stock_quantity >= 0
    /\ \A o \in orders :
         /\ o.total_amount >= 0
         /\ o.status \in {"pending", "confirmed", "shipped", "delivered", "cancelled"}
         /\ o.payment_status \in {"pending", "completed", "failed", "refunded"}
    /\ \A i \in order_items : i.quantity > 0 /\ i.unit_price >= 0 /\ i.subtotal >= 0
    /\ \A v \in reviews : v.rating \in 1..5
    /\ \A u \in user_profiles : u.role \in {"admin", "farmer", "buyer"}

\* every table holds a row, and the author of a review has just tried to
\* set its rating outside 1..5 and was rejected
C20_Witness ==
    /\ products # {} /\ orders # {} /\ order_items # {} /\ reviews # {}
    /\ last.op = "update_reviews"
    /\ last.outcome = "IntegrityViolation"
    /\ \E v \in reviews : v.id = last.target /\ v.buyer_id = last.actor

(***************************************************************************)
(* deletions and the ON DELETE rules of the foreign keys                   *)
(***************************************************************************)
\* the rows left, and the references cleared, once the rows goneProducts of
\* products and goneOrders of orders are deleted
ItemsWithout(goneProducts, goneOrders) ==
    {i \in order_items :
       /\ \A p \in goneProducts : i.product_id # p.id
       /\ \A o \in goneOrders : i.order_id # o.id}

ClearOrder(row, goneOrders) ==
    IF \E o \in goneOrders : row.order_id = o.id
    THEN [row EXCEPT !.order_id = NULL] ELSE row

ClearProduct(row, goneProducts) ==
    IF \E p \in goneProducts : row.product_id = p.id
    THEN [row EXCEPT !.product_id = NULL] ELSE row

\* the store once the user_profiles row of target is deleted: the rows that
\* refer to it follow their ON DELETE rule, and so on down the references
AccountCascade(target) ==
    LET goneProducts == {p \in products : p.farmer_id = target}
        goneOrders == {o \in orders : o.buyer_id = target \/ o.farmer_id = target}
    IN /\ user_profiles' = {u \in user_profiles : u.id # target}
       /\ products' = products \ goneProducts
       /\ orders' = orders \ goneOrders
       /\ order_items' = ItemsWithout(goneProducts, goneOrders)
       /\ reviews' = {ClearOrder(v, goneOrders) :
                        v \in {w \in reviews :
                                 /\ w.buyer_id # target
                                 /\ \A p \in goneProducts : w.product_id # p.id}}
       /\ messages' = {ClearOrder(ClearProduct(m, goneProducts), goneOrders) :
                         m \in {n \in messages :
                                  n.sender_id # target /\ n.receiver_id # target}}
       /\ educational_resources' =
            {IF r.author_id = target THEN [r EXCEPT !.author_id = NoAuthor] ELSE r :
               r \in educational_resources}
       /\ resource_bookmarks' = {b \in resource_bookmarks : b.user_id # target}

\* DELETE FROM auth.users WHERE id = target, by the auth service: the
\* profile goes with it (ON DELETE CASCADE)
DeleteAccount(target) ==
    /\ \E u \in user_profiles : u.id = target
    /\ AccountCascade(target)
    /\ last' = Response("delete_account", "service", target, "none", "ALLOW")
    /\ UNCHANGED <<resources, expandedResource, inflight>>

\* a mutant: a FOR DELETE policy that lets an account delete its own profile
UsersCanDeleteOwnProfile(uid, row) == uid = row.id

\* user_profiles has no policy FOR DELETE: with row level security enabled,
\* no row passes
NoProfileDeletePolicy(uid, row) == FALSE

\* DELETE FROM user_profiles WHERE id = target, as actor
DeleteUserProfile(actor, target) ==
    LET hit == {r \in user_profiles :
                  /\ r.id = target
                  /\ ProfileSelectPolicy(actor, r)
                  /\ NoProfileDeletePolicy(actor, r)}
    IN /\ IF hit = {}
          THEN UNCHANGED <<user_profiles, products, orders, order_items, reviews,
                           messages, educational_resources, resource_bookmarks>>
          ELSE AccountCascade(target)
       /\ last' = Response("delete_user_profiles", actor, target, "none",
                           IF hit = {} THEN "DENY" ELSE "ALLOW")
       /\ UNCHANGED <<resources, expandedResource, inflight>>

\* DELETE FROM orders WHERE id = target, by the service role (the policies
\* give no account a delete on orders)
DeleteOrder(target) ==
    LET gone == {o \in orders : o.id = target}
    IN /\ gone # {}
       /\ orders' = orders \ gone
       /\ order_items' = ItemsWithout({}, gone)
       /\ reviews' = {ClearOrder(v, gone) : v \in reviews}
       /\ messages' = {ClearOrder(m, gone) : m \in messages}
       /\ last' = Response("delete_orders", "service", target, "none", "ALLOW")
       /\ UNCHANGED <<user_profiles, products, resourceVars, inflight>>

\* every foreign key of every row refers to a row that exists
NoDanglingReference ==
    /\ \A p \in products : ProductForeignKeys(p)
    /\ \A o \in orders : OrderForeignKeys(o)
    /\ \A i \in order_items : OrderItemForeignKeys(i)
    /\ \A v \in reviews : ReviewForeignKeys(v)
    /\ \A m \in messages : MessageForeignKeys(m)
    /\ \A r \in educational_resources : ResourceForeignKeys(r)
    /\ \A b \in resource_bookmarks : BookmarkForeignKeys(b)

Ids(table) == {r.id : r \in table}

\* the rows the requests of SpecCascade propose
CascadeOrderPayloads ==
    [buyer_id : {"u3"}, farmer_id : {"u2"}, total_amount : {100},
     status : {"pending"}, payment_status : {"pending"}, delivery_address : {"a1"}]

CascadeItemPayloads ==
    [order_id : {1}, product_id : {1}, quantity : {2}, unit_price : {50},
     subtotal : {100}]

CascadeReviewPayloads ==
    [product_id : {1}, buyer_id : {"u3"}, order_id : {1}, rating : {5}]

CascadeMessagePayloads ==
    [sender_id : {"u3"}, receiver_id : {"u2"}, content : {"c1"},
     product_id : {1}, order_id : {1}]

CascadeBookmarkPayloads == [user_id : {"u3"}, resource_id : {1}]

InitCascade ==
    /\ user_profiles = SeedProfiles
    /\ products = SeedProducts
    /\ orders = {}
    /\ order_items = {}
    /\ reviews = {}
    /\ messages = {}
    /\ educational_resources = SeedResources
    /\ resource_bookmarks = {}
    /\ resources = [u \in Users |-> {}]
    /\ expandedResource = [u \in Users |-> NULL]
    /\ inflight = {}
    /\ last = NoRequest

NextCascade ==
    \/ \E payload \in CascadeOrderPayloads : InsertOrder("u3", payload)
    \/ \E o \in orders : UpdateOrder("u2", o.id, "status", "delivered")
    \/ \E payload \in CascadeItemPayloads : InsertOrderItem("u3", payload)
    \/ \E payload \in CascadeReviewPayloads : InsertReview("u3", payload)
    \/ \E payload \in CascadeMessagePayloads : InsertMessage("u3", payload)
    \/ \E payload \in CascadeBookmarkPayloads : InsertBookmark("u3", payload)
    \/ \E r \in educational_resources : UpdateResource("u1", r.id, "author_id", "u2")
    \/ \E target \in Users : DeleteAccount(target)
    \/ \E actor \in Users, target \in Users : DeleteUserProfile(actor, target)
    \/ \E p \in products : DeleteProduct("u2", p.id)
    \/ \E target \in OrderIds : DeleteOrder(target)
    \/ \E r \in educational_resources : DeleteResource("u1", r.id)

SpecCascade == InitCascade /\ [][NextCascade]_vars

\* C21: after every step every foreign key refers to an existing row.
\* Deleting an account deletes its profile, its products, its orders as
\* buyer or farmer, its messages as sender or receiver, its reviews and its
\* bookmarks. Deleting a product deletes its order_items and reviews and
\* keeps every message, none of which refers to the product any longer.
\* Deleting an order deletes its order_items and keeps every review and
\* message, none of which refers to the order any longer.
C21_DeletionCascades ==
    [][LET X == last'.target
       IN /\ NoDanglingReference'
          /\ last'.op = "delete_account" =>
               /\ user_profiles' = {u \in user_profiles : u.id # X}
               /\ products' = {p \in products : p.farmer_id # X}
               /\ orders' = {o \in orders : o.buyer_id # X /\ o.farmer_id # X}
               /\ Ids(messages') =
                    Ids({m \in messages : m.sender_id # X /\ m.receiver_id # X})
               /\ \A v \in reviews' : v.buyer_id # X
               /\ resource_bookmarks' = {b \in resource_bookmarks : b.user_id # X}
          /\ (last'.op = "delete_products" /\ last'.outcome = "ALLOW") =>
               /\ \A p \in products' : p.id # X
               /\ order_items' = {i \in order_items : i.product_id # X}
               /\ reviews' = {v \in reviews : v.product_id # X}
               /\ Ids(messages') = Ids(messages)
               /\ \A m \in messages' : m.product_id # X
               /\ orders' = orders
          /\ last'.op = "delete_orders" =>
               /\ \A o \in orders' : o.id # X
               /\ order_items' = {i \in order_items : i.order_id # X}
               /\ Ids(reviews') = Ids(reviews)
               /\ Ids(messages') = Ids(messages)
               /\ \A v \in reviews' : v.order_id # X
               /\ \A m \in messages' : m.order_id # X]_vars

\* an order has just been deleted: its review and the message about it are
\* still stored, with order_id null
C21_Witness ==
    /\ last.op = "delete_orders"
    /\ \E v \in reviews : v.order_id = NULL
    /\ \E m \in messages : m.order_id = NULL /\ m.product_id # NULL

(***************************************************************************)
(* a review insert next to concurrent statements: the statement reads the  *)
(* store as of its snapshot and commits later                              *)
(***************************************************************************)
\* the most statements in flight at once
MaxInflight == 1

\* INSERT INTO reviews ..., as actor: the statement starts, and the policy's
\* sub-select on orders runs against the statement's snapshot; a row that
\* fails the policy ends the statement at once
BeginInsertReview(actor, payload) ==
    LET row == [id |-> NULL, product_id |-> payload.product_id,
                buyer_id |-> payload.buyer_id, order_id |-> payload.order_id,
                rating |-> payload.rating]
        passes == BuyersCanCreateReviewsForPurchasedProducts(actor, row)
    IN /\ Cardinality(inflight) < MaxInflight
       /\ inflight' = IF passes
                      THEN inflight \cup {[actor |-> actor, payload |-> payload]}
                      ELSE inflight
       /\ last' = Response("begin_insert_reviews", actor, NULL, "none",
                           IF passes THEN "none" ELSE "DENY")
       /\ UNCHANGED <<user_profiles, products, orders, order_items, reviews, messages,
                      resourceVars>>

\* the statement in flight writes its row and commits: constraints are
\* checked against the rows then stored
CommitInsertReview(t) ==
    LET id == FreshId(ReviewIds, reviews)
        row == [id |-> id, product_id |-> t.payload.product_id,
                buyer_id |-> t.payload.buyer_id, order_id |-> t.payload.order_id,
                rating |-> t.payload.rating]
        outcome ==
          IF ~ReviewCheck(row) THEN "IntegrityViolation"
          ELSE IF ~ReviewUnique(row, reviews) THEN "IntegrityViolation"
          ELSE IF ~ReviewForeignKeys(row) THEN "IntegrityViolation"
          ELSE "ALLOW"
    IN /\ t \in inflight
       /\ id # NULL
       /\ inflight' = inflight \ {t}
       /\ reviews' = IF outcome = "ALLOW" THEN reviews \cup {row} ELSE reviews
       /\ last' = Response("insert_reviews", t.actor, NULL, "none", outcome)
       /\ UNCHANGED <<user_profiles, products, orders, order_items, messages,
                      resourceVars>>

RacePayloads ==
    [product_id : {1, 2}, buyer_id : {"u3"}, order_id : {NULL, 1}, rating : {5}]

NextReviewRace ==
    \/ \E payload \in ReviewOrderPayloads : InsertOrder("u3", payload)
    \/ \E payload \in ReviewItemPayloads : InsertOrderItem("u3", payload)
    \/ \E o \in orders, val \in {"shipped", "delivered", "cancelled"} :
         UpdateOrder(o.farmer_id, o.id, "status", val)
    \/ \E actor \in {"u2", "u3"}, payload \in RacePayloads :
         BeginInsertReview(actor, payload)
    \/ \E t \in inflight : CommitInsertReview(t)

SpecReviewRace == InitReviews /\ [][NextReviewRace]_vars

\* C22: a review is added to the table only in a step before which its
\* buyer has an order holding the product whose status is delivered.
C22_ReviewNeedsLiveDeliveredOrder ==
    [][\A v \in reviews' \ reviews :
         \E o \in orders, i \in order_items :
           /\ o.buyer_id = v.buyer_id
           /\ o.status = "delivered"
           /\ i.order_id = o.id
           /\ i.product_id = v.product_id]_vars

(***************************************************************************)
(* who may change a row: accounts signing up with any role, next to rows   *)
(* of every table                                                          *)
(***************************************************************************)
\* the profiles the sign-ups of SpecMutators propose, and its other rows
MutatorProfileRows ==
    {[id |-> "u1", role |-> "admin", full_name |-> "n1"],
     [id |-> "u2", role |-> "admin", full_name |-> "n1"],
     [id |-> "u2", role |-> "farmer", full_name |-> "n1"],
     [id |-> "u3", role |-> "buyer", full_name |-> "n1"]}

MutatorProductPayloads ==
    [farmer_id : {"u2"}, price : {50}, stock_quantity : {5}, is_active : {TRUE}]

MutatorMessagePayloads ==
    [sender_id : {"u3"}, receiver_id : {"u2"}, content : {"c1"},
     product_id : {NULL}, order_id : {NULL}]

InitMutators ==
    /\ user_profiles = {}
    /\ products = {}
    /\ orders = {}
    /\ order_items = {}
    /\ reviews = {}
    /\ messages = {}
    /\ educational_resources = SeedResources
    /\ resource_bookmarks = {}
    /\ resources = [u \in Users |-> {}]
    /\ expandedResource = [u \in Users |-> NULL]
    /\ inflight = {}
    /\ last = NoRequest

NextMutators ==
    \/ \E row \in MutatorProfileRows : InsertUserProfile(row.id, row)
    \/ \E payload \in MutatorProductPayloads : InsertProduct("u2", payload)
    \/ \E payload \in CascadeOrderPayloads : InsertOrder("u3", payload)
    \/ \E o \in orders : UpdateOrder("u2", o.id, "status", "delivered")
    \/ \E payload \in CascadeItemPayloads : InsertOrderItem("u3", payload)
    \/ \E payload \in CascadeReviewPayloads : InsertReview("u3", payload)
    \/ \E payload \in MutatorMessagePayloads : InsertMessage("u3", payload)
    \/ \E payload \in CascadeBookmarkPayloads : InsertBookmark("u3", payload)

SpecMutators == InitMutators /\ [][NextMutators]_vars

\* the accounts that pass the update rule, or the delete rule, of a row
ProfileMutators(row) == {u \in Users : UsersCanUpdateOwnProfileUsing(u, row)}

ProductMutators(row) ==
    {u \in Users : FarmersCanUpdateOwnProductsUsing(u, row)
                     \/ FarmersCanDeleteOwnProducts(u, row)}

OrderMutators(row) == {u \in Users : FarmersCanUpdateTheirOrdersUsing(u, row)}

ReviewMutators(row) == {u \in Users : BuyersCanUpdateOwnReviewsUsing(u, row)}

MessageMutators(row) == {u \in Users : UsersCanMarkReceivedMessagesAsReadUsing(u, row)}

BookmarkMutators(row) == {u \in Users : UsersCanDeleteOwnBookmarks(u, row)}

ResourceMutators(row) == {u \in Users : AdminsCanManageResources(u, row)}

\* at most one account passes the update/delete rule of each row of the
\* tables whose rules name a column of the row
OneMutatorPerOwnedRow ==
    /\ \A r \in user_profiles : Cardinality(ProfileMutators(r)) <= 1
    /\ \A r \in products : Cardinality(ProductMutators(r)) <= 1
    /\ \A r \in orders : Cardinality(OrderMutators(r)) <= 1
    /\ \A r \in reviews : Cardinality(ReviewMutators(r)) <= 1
    /\ \A r \in messages : Cardinality(MessageMutators(r)) <= 1
    /\ \A r \in resource_bookmarks : Cardinality(BookmarkMutators(r)) <= 1

\* C23 as stated: at most one account passes the update/delete rule of each
\* row of every table, educational_resources included.
C23_OneMutatorPerRow ==
    /\ OneMutatorPerOwnedRow
    /\ \A r \in educational_resources : Cardinality(ResourceMutators(r)) <= 1

\* C23: at most one account passes the update/delete rule of each account,
\* product, order, review, message and bookmark row; an educational
\* resource's rule is passed by exactly the accounts with the admin role,
\* however many there are.
C23_OneMutatorPerOwnedRowAdminsShare ==
    /\ OneMutatorPerOwnedRow
    /\ \A r \in educational_resources :
         ResourceMutators(r) =
           {u \in Users : \E p \in user_profiles : p.id = u /\ p.role = "admin"}

\* two accounts hold the admin role while a resource, an order, a message
\* and a bookmark are stored
C23_Witness ==
    /\ Cardinality({p \in user_profiles : p.role = "admin"}) = 2
    /\ educational_resources # {}
    /\ orders # {} /\ messages # {} /\ resource_bookmarks # {}

\* C24: an update of a profile attribute of an existing account X by an
\* actor A who has the admin role and is not X is allowed.
C24_AdminUpdatesOtherProfile ==
    [][(/\ last'.op = "update_user_profiles"
        /\ last'.col = "full_name"
        /\ last'.actor # last'.target
        /\ HasRole(last'.actor, {"admin"})
        /\ \E p \in user_profiles : p.id = last'.target)
       => last'.outcome = "ALLOW"]_vars

\* C25: a delete request on a user_profiles row, by whatever actor, is
\* denied and leaves every table as it was.
C25_ProfileNeverDeleted ==
    [][last'.op = "delete_user_profiles" =>
         /\ last'.outcome = "DENY"
         /\ UNCHANGED <<user_profiles, products, orders, order_items, reviews, messages,
                        educational_resources, resource_bookmarks>>]_vars

\* the farmer, with products and an order stored, has just asked to delete
\* their own profile and was denied; the admin is there too
C25_Witness ==
    /\ last.op = "delete_user_profiles"
    /\ last.outcome = "DENY"
    /\ last.actor = last.target
    /\ \E p \in products : p.farmer_id = last.actor
    /\ \E o \in orders : o.farmer_id = last.actor
    /\ \E v \in reviews : TRUE

(***************************************************************************)
(* reads as row filters                                                    *)
(***************************************************************************)
OrdersVisibleTo(uid) == {r \in orders : OrderSelectPolicy(uid, r)}

\* a mutant of the order_items read policy: the items of a delivered order
\* pass, whoever its parties are
ItemsOfDeliveredOrders(uid, row) ==
    \E o \in orders : o.id = row.order_id /\ o.status = "delivered"

OrderItemsPolicy(uid, row) == UsersCanReadOrderItemsForTheirOrders(uid, row)

OrderItemsVisibleTo(uid) == {r \in order_items : OrderItemsPolicy(uid, r)}

MessagesVisibleTo(uid) == {r \in messages : UsersCanReadTheirMessages(uid, r)}

\* a select on orders, on order_items, with no filter of its own
SelectOrders(actor) ==
    /\ last' = ReadResponse("select_orders", actor, OrdersVisibleTo(actor))
    /\ UNCHANGED <<user_profiles, products, orders, order_items, reviews, messages,
                   resourceVars, inflight>>

SelectOrderItems(actor) ==
    /\ last' = ReadResponse("select_order_items", actor, OrderItemsVisibleTo(actor))
    /\ UNCHANGED <<user_profiles, products, orders, order_items, reviews, messages,
                   resourceVars, inflight>>

ReadOrderPayloads ==
    [buyer_id : {"u3"}, farmer_id : {"u1", "u2"}, total_amount : {100},
     status : {"pending"}, payment_status : {"pending"}, delivery_address : {"a1"}]

ReadItemPayloads ==
    [order_id : OrderIds, product_id : {1}, quantity : {2}, unit_price : {50},
     subtotal : {100}]

ReadMessagePayloads ==
    [sender_id : {"u3"}, receiver_id : {"u1"}, content : {"c1"},
     product_id : {NULL}, order_id : {NULL}]

InitReads ==
    /\ user_profiles \in {SeedProfiles, FarmerPairProfiles}
    /\ products = SeedProducts
    /\ orders = {}
    /\ order_items = {}
    /\ reviews = {}
    /\ messages = {}
    /\ educational_resources = {}
    /\ resource_bookmarks = {}
    /\ resources = [u \in Users |-> {}]
    /\ expandedResource = [u \in Users |-> NULL]
    /\ inflight = {}
    /\ last = NoRequest

NextReads ==
    \/ \E payload \in ReadOrderPayloads : InsertOrder("u3", payload)
    \/ \E o \in orders : UpdateOrder(o.farmer_id, o.id, "status", "delivered")
    \/ \E payload \in ReadItemPayloads : InsertOrderItem("u3", payload)
    \/ \E payload \in ReadMessagePayloads : InsertMessage("u3", payload)
    \/ \E val \in BOOLEAN : UpdateProduct("u2", 1, "is_active", val)
    \/ \E target \in OrderIds : DeleteOrder(target)
    \/ \E actor \in Users : SelectOrders(actor)
    \/ \E actor \in Users : SelectOrderItems(actor)

SpecReads == InitReads /\ [][NextReads]_vars

\* C26: for every actor, a step that adds, removes or changes only rows the
\* actor is not allowed to read leaves the result of every read by that
\* actor as it was: the two stores return the same rows to the actor.
C26_HiddenRowsDoNotShow ==
    [][\A A \in Users :
         (/\ (user_profiles \ user_profiles') \cap ProfilesVisibleTo(A) = {}
          /\ (user_profiles' \ user_profiles) \cap ProfilesVisibleTo(A)' = {}
          /\ (products \ products') \cap ProductsVisibleTo(A) = {}
          /\ (products' \ products) \cap ProductsVisibleTo(A)' = {}
          /\ (orders \ orders') \cap OrdersVisibleTo(A) = {}
          /\ (orders' \ orders) \cap OrdersVisibleTo(A)' = {}
          /\ (order_items \ order_items') \cap OrderItemsVisibleTo(A) = {}
          /\ (order_items' \ order_items) \cap OrderItemsVisibleTo(A)' = {}
          /\ (messages \ messages') \cap MessagesVisibleTo(A) = {}
          /\ (messages' \ messages) \cap MessagesVisibleTo(A)' = {})
         => /\ ProfilesVisibleTo(A)' = ProfilesVisibleTo(A)
            /\ ProductsVisibleTo(A)' = ProductsVisibleTo(A)
            /\ OrdersVisibleTo(A)' = OrdersVisibleTo(A)
            /\ OrderItemsVisibleTo(A)' = OrderItemsVisibleTo(A)
            /\ MessagesVisibleTo(A)' = MessagesVisibleTo(A)]_vars

\* a farmer who is no party to the only order has just read order_items
\* while the order held an item, and received no row
C26_Witness ==
    /\ last.op = "select_order_items"
    /\ HasRole(last.actor, {"farmer"})
    /\ last.rows = {}
    /\ \E i \in order_items, o \in orders :
         i.order_id = o.id /\ o.farmer_id # last.actor /\ o.status = "delivered"

\* C27: starting from a store without an admin account, no state holds an
\* account whose role is admin.
C27_NoAdminAppears == \A p \in user_profiles : p.role # "admin"

(***************************************************************************)
(* reviews edited by their authors                                         *)
(***************************************************************************)
EditItemPayloads ==
    [order_id : OrderIds, product_id : {1}, quantity : {2}, unit_price : {50},
     subtotal : {100}]

EditReviewPayloads ==
    [product_id : {1}, buyer_id : {"u3"}, order_id : {NULL}, rating : {5}]

EditColValues(col) ==
    CASE col = "product_id" -> {1, 2}
      [] col = "rating" -> {4, 5}

NextReviewEdits ==
    \/ \E payload \in ReviewOrderPayloads : InsertOrder("u3", payload)
    \/ \E payload \in EditItemPayloads : InsertOrderItem("u3", payload)
    \/ \E o \in orders : UpdateOrder(o.farmer_id, o.id, "status", "delivered")
    \/ \E payload \in EditReviewPayloads : InsertReview("u3", payload)
    \/ \E actor \in {"u2", "u3"}, target \in ReviewIds, col \in {"product_id", "rating"} :
         \E val \in EditColValues(col) : UpdateReview(actor, target, col, val)

SpecReviewEdits == InitReviews /\ [][NextReviewEdits]_vars

\* C28: every review row written by a step (inserted, or changed by an
\* update) names a product of which its buyer has an order_item on a
\* delivered order of that buyer.
C28_ReviewStaysOnDeliveredProduct ==
    [][\A v \in reviews' \ reviews :
         \E o \in orders, i \in order_items :
           /\ o.buyer_id = v.buyer_id
           /\ o.status = "delivered"
           /\ i.order_id = o.id
           /\ i.product_id = v.product_id]_vars

\* C29: every order_item's product has the farmer_id of the item's order.
C29_ItemProductOfOrderFarmer ==
    \A i \in order_items :
      \A o \in orders, p \in products :
        (o.id = i.order_id /\ p.id = i.product_id) => p.farmer_id = o.farmer_id

(***************************************************************************)
(* two admins with the Resources page open at once                         *)
(***************************************************************************)
\* the accounts of SpecViewCount: both may update a resource
AdminPairProfiles ==
    {[id |-> "u1", role |-> "admin", full_name |-> "n1"],
     [id |-> "u2", role |-> "admin", full_name |-> "n1"],
     [id |-> "u3", role |-> "buyer", full_name |-> "n1"]}

InitViewCount ==
    /\ user_profiles = AdminPairProfiles
    /\ products = {}
    /\ orders = {}
    /\ order_items = {}
    /\ reviews = {}
    /\ messages = {}
    /\ educational_resources = SeedResources
    /\ resource_bookmarks = {}
    /\ resources = [u \in Users |-> {}]
    /\ expandedResource = [u \in Users |-> NULL]
    /\ inflight = {}
    /\ last = NoRequest

NextViewCount ==
    \/ \E actor \in Users : loadResources(actor)
    \/ \E actor \in Users, resourceId \in ResourceIds :
         handleViewResource(actor, resourceId)
    \/ \E actor \in Users : closeResources(actor)

SpecViewCount == InitViewCount /\ [][NextViewCount]_vars

\* C30: a view of a resource by an actor permitted to update it raises the
\* persisted view_count of that resource by one, and the count the actor's
\* page then shows is the persisted count.
C30_NoViewLost ==
    [][(last'.op = "handleViewResource" /\ last'.outcome = "ALLOW") =>
         \A r \in educational_resources :
           r.id = last'.target =>
             /\ [r EXCEPT !.view_count = r.view_count + 1] \in educational_resources'
             /\ \A l \in resources'[last'.actor] :
                  l.id = r.id => l.view_count = r.view_count + 1]_vars

====
